---------------------------- MODULE Spec2Model ----------------------------
(***************************************************************************)
(* State-machine model of the MPPI liquidity-range controller of           *)
(* v4-kineticflow: the S_MPPI controller (optimizer/controller.py), its    *)
(* dynamics and cost models (optimizer/utils.py, cost_function.py), the    *)
(* rebalance policy (optimizer/rebalancer.py) and the control loop of the  *)
(* bot (core/mppi_bot.py).                                                 *)
(*                                                                         *)
(* Numbers.  The program computes in IEEE floating point.  The model uses  *)
(* integers (one unit = one tick, one cost unit = 1e-5) extended with the  *)
(* three IEEE specials NaN, +Inf and -Inf; a floating-point rounding is a  *)
(* rounding to this integer grid.  NaN is unordered: every comparison      *)
(* with it is FALSE, and arithmetic propagates it, as in the program.      *)
(***************************************************************************)
EXTENDS Integers, Sequences, FiniteSets, TLC

\* ------------------------------------------------------------------------
\* Extended numbers
\* ------------------------------------------------------------------------
PInf == 2 * (10^9)
NInf == -PInf
NaN == -(PInf + 1)

IsNaN(x) == x = NaN
IsFinite(x) == x # NaN /\ x > NInf /\ x < PInf

Lt(a, b) == a # NaN /\ b # NaN /\ a < b
Le(a, b) == a # NaN /\ b # NaN /\ a <= b
Gt(a, b) == Lt(b, a)
Ge(a, b) == Le(b, a)

Neg(a) == IF a = NaN THEN NaN ELSE -a

Add(a, b) ==
    IF a = NaN \/ b = NaN THEN NaN
    ELSE IF a = PInf THEN (IF b = NInf THEN NaN ELSE PInf)
    ELSE IF a = NInf THEN (IF b = PInf THEN NaN ELSE NInf)
    ELSE IF b = PInf \/ b = NInf THEN b
    ELSE a + b

Sub(a, b) == Add(a, Neg(b))

Sign(a) == IF a > 0 THEN 1 ELSE IF a < 0 THEN -1 ELSE 0

Mul(a, b) ==
    IF a = NaN \/ b = NaN THEN NaN
    ELSE IF ~IsFinite(a) \/ ~IsFinite(b)
         THEN (IF a = 0 \/ b = 0 THEN NaN
               ELSE IF Sign(a) * Sign(b) > 0 THEN PInf ELSE NInf)
    ELSE a * b

AbsF(a) == IF a = NaN THEN NaN ELSE IF a < 0 THEN -a ELSE a

\* round-to-nearest quotient of two finite integers, n > 0
RoundDiv(a, n) == (2 * a + n) \div (2 * n)

\* float division by a count n >= 0 (the mean over a dimension of size n)
DivF(a, n) ==
    IF a = NaN THEN NaN
    ELSE IF n = 0 THEN (IF a = 0 THEN NaN ELSE a)
    ELSE IF ~IsFinite(a) THEN a
    ELSE RoundDiv(a, n)

MinF(a, b) == IF a = NaN \/ b = NaN THEN NaN ELSE IF a < b THEN a ELSE b
MaxF(a, b) == IF a = NaN \/ b = NaN THEN NaN ELSE IF a > b THEN a ELSE b

\* torch.clamp(x, min=lo): NaN stays NaN
ClampMin(x, lo) == IF x = NaN THEN NaN ELSE IF x < lo THEN lo ELSE x

\* a clamp that applies the upper bound only
ClampMaxOnly(x, lo, hi) == IF x = NaN THEN NaN ELSE IF x > hi THEN hi ELSE x

\* torch.clamp(x, lo, hi) = min(max(x, lo), hi); NaN stays NaN
ClampF(x, lo, hi) ==
    IF x = NaN THEN NaN
    ELSE LET a == IF x < lo THEN lo ELSE x
         IN  IF a > hi THEN hi ELSE a

\* sum of a sequence of extended numbers
RECURSIVE SumF(_)
SumF(s) == IF s = << >> THEN 0 ELSE Add(Head(s), SumF(Tail(s)))


\* piecewise-linear interpolation through knots <<x, y>> sorted by x;
\* constant beyond the last knot and before the first
RECURSIVE Interp(_, _)
Interp(knots, x) ==
    IF Len(knots) = 1 \/ x <= knots[1][1] THEN knots[1][2]
    ELSE IF x <= knots[2][1]
         THEN knots[1][2]
              + RoundDiv((x - knots[1][1]) * (knots[2][2] - knots[1][2]),
                         knots[2][1] - knots[1][1])
         ELSE Interp(Tail(knots), x)

\* ------------------------------------------------------------------------
\* optimizer/utils.py
\* ------------------------------------------------------------------------
\* A positive price is represented by its logarithm to base 1.0001 in units
\* of 1/LogScale tick; NInf stands for a price <= 0, PInf for +inf, NaN for
\* NaN.  math.log raises on a price <= 0, round/int raise on NaN and inf.
LogScale == 2
MIN_TICK == -887272
MAX_TICK == 887272

PriceRaises(price) == price = NaN \/ price = PInf \/ price = NInf

\* Python round(): to nearest, ties to even
RoundHalfEven(x, q) ==
    LET f == x \div q
        r == x % q
    IN  IF 2 * r < q THEN f
        ELSE IF 2 * r > q THEN f + 1
        ELSE IF f % 2 = 0 THEN f ELSE f + 1

\* Python int(): truncation toward zero
TruncToInt(x, q) == IF x >= 0 THEN x \div q ELSE -((-x) \div q)

\* price_to_tick(price) = int(round(log(price) / log(1.0001)))
price_to_tick(price) == RoundHalfEven(price, LogScale)

\* tick_to_price(tick) = 1.0001 ** tick
tick_to_price(tick) == tick * LogScale

clamp_ticks(tick_lower, tick_upper) ==
    LET tm1 == tick_upper - 1
        lo  == IF tick_lower < tm1 THEN tick_lower ELSE tm1
        lower == IF MIN_TICK > lo THEN MIN_TICK ELSE lo
        hi  == IF tick_upper > lower + 1 THEN tick_upper ELSE lower + 1
        upper == IF MAX_TICK < hi THEN MAX_TICK ELSE hi
    IN  <<lower, upper>>

\* A price factor is given in percent (100 = factor 1.0).
\* log(factor) / log(1.0001), in ticks
LogKnots ==
    << <<1, -46054>>, <<50, -6932>>, <<70, -3567>>, <<80, -2232>>,
       <<90, -1054>>, <<100, 0>>, <<110, 953>>, <<120, 1823>>,
       <<130, 2624>>, <<200, 6932>> >>

LogTicks(f) ==
    IF f = NaN \/ f < 0 THEN NaN
    ELSE IF f = 0 THEN NInf
    ELSE IF f = PInf THEN PInf
    ELSE Interp(LogKnots, f)

\* generate_constant_parameter_seq: torch.zeros(num_samples_expect, horizon)
generate_constant_parameter_seq(num_samples_expect, horizon) ==
    [e \in 1..num_samples_expect |-> [t \in 1..horizon |-> 0]]

\* 1000 * tanh(x / 1000)
TanhKnots ==
    << <<0, 0>>, <<250, 245>>, <<500, 462>>, <<750, 635>>, <<1000, 762>>,
       <<1500, 905>>, <<2000, 964>>, <<2500, 987>>, <<3000, 995>>,
       <<4000, 999>>, <<4001, 1000>> >>

\* 1000 * tanh(2 * dev / w) for dev >= 0
TanhMilli(dev, w) ==
    IF dev = NaN \/ w = NaN THEN NaN
    ELSE IF dev = PInf THEN (IF w = PInf THEN NaN ELSE 1000)
    ELSE IF w = PInf THEN 0
    ELSE IF dev >= 2 * w + 1 THEN 1000
    ELSE Interp(TanhKnots, (2000 * dev) \div w)

\* a gain applied to t_pool - next_t_market instead of next_t_market - t_pool
MulMilliReversed(k, delta) ==
    IF k = NaN \/ delta = NaN THEN NaN
    ELSE IF ~IsFinite(delta) THEN Neg(delta)
    ELSE -RoundDiv(k * delta, 1000)

\* k * delta for a gain k given in thousandths
MulMilli(k, delta) ==
    IF k = NaN \/ delta = NaN THEN NaN
    ELSE IF ~IsFinite(delta) THEN delta
    ELSE RoundDiv(k * delta, 1000)

HalfF(w) == IF IsFinite(w) THEN w \div 2 ELSE w

width_floor == 120

\* state = <<t_market, t_pool, t_center, width_ticks>>,
\* action = <<delta_t_center, delta_width_ticks>>, params = price factor
uniswap_dynamics(state, action, params) ==
    LET t_market == state[1]
        t_pool   == state[2]
        t_center == state[3]
        w_ticks  == state[4]
        delta_t_market == LogTicks(params)
        next_t_market  == Add(t_market, delta_t_market)
        next_t_center  == Add(t_center, action[1])
        next_w_ticks   == ClampMin(Add(w_ticks, action[2]), width_floor)
        lower == Sub(next_t_center, HalfF(next_w_ticks))
        upper == Add(next_t_center, HalfF(next_w_ticks))
        dev   == AbsF(Sub(next_t_market, t_pool))
        tanh  == TanhMilli(dev, next_w_ticks)
        k     == IF tanh = NaN THEN NaN ELSE 200 + RoundDiv(750 * tanh, 1000)
        t_pool_raw  == Add(t_pool, MulMilli(k, Sub(next_t_market, t_pool)))
        next_t_pool == ClampF(t_pool_raw, lower, upper)
    IN  <<next_t_market, next_t_pool, next_t_center, next_w_ticks>>

\* ------------------------------------------------------------------------
\* optimizer/cost_function.py  (one cost unit = 1e-5)
\* ------------------------------------------------------------------------
SqF(x) == Mul(x, x)

\* a charge that starts at the threshold itself
rebalance_cost_from_threshold(action) ==
    IF Ge(Add(AbsF(action[1]), AbsF(action[2])), 60) THEN 500 ELSE 0

\* torch.where(torch.abs(action).sum(dim=-1) > 60.0, 0.005, 0.0)
rebalance_cost(action) ==
    IF Gt(Add(AbsF(action[1]), AbsF(action[2])), 60) THEN 500 ELSE 0

stage_cost(state, action) ==
    LET t_market == state[1]
        t_pool   == state[2]
        t_center == state[3]
        w_ticks  == state[4]
        lower == Sub(t_center, HalfF(w_ticks))
        upper == Add(t_center, HalfF(w_ticks))
        in_range   == Gt(t_pool, lower) /\ Lt(t_pool, upper)
        fee_reward == IF in_range THEN -1000 ELSE 0
        il_cost    == SqF(Sub(t_market, t_pool))
        boundary_hit == Le(t_pool, Add(lower, 1)) \/ Ge(t_pool, Sub(upper, 1))
        boundary_hit_cost == IF boundary_hit THEN 5000 ELSE 0
        dist_to_edge == MinF(Sub(t_pool, lower), Sub(upper, t_pool))
        gap       == Sub(120, dist_to_edge)
        proximity == IF gap = NaN THEN NaN ELSE IF gap < 0 THEN 0 ELSE gap
        proximity_cost == Mul(2, SqF(proximity))
        market_outside == Lt(t_market, lower) \/ Gt(t_market, upper)
        market_outside_dist ==
            IF Lt(t_market, lower) THEN Sub(lower, t_market)
                                   ELSE Sub(t_market, upper)
        market_outside_cost ==
            IF market_outside THEN Mul(10, SqF(market_outside_dist)) ELSE 0
    IN  SumF(<<fee_reward, il_cost, boundary_hit_cost, proximity_cost,
               market_outside_cost, rebalance_cost(action)>>)

terminal_cost(state) ==
    LET dist_cost     == SqF(Sub(state[1], state[3]))
        width_penalty == Mul(10, state[4])
    IN  Add(dist_cost, width_penalty)

\* ------------------------------------------------------------------------
\* The global torch generator.  torch.manual_seed(seed) resets it; every
\* draw is a deterministic function of the seed and of the number of
\* scalars drawn since.  rng = [seed, pos].
\* ------------------------------------------------------------------------
\* standard normal draws, in tenths
NormalVals == <<0, 3, -10, 60, -4, 12, -60, 25, -1, 7, -25>>
\* uniform draws on [0, 1), in percent
UniformVals == <<50, 2, 97, 30, 4, 71, 12>>

Mix(seed, q) == seed * 31 + q * 17 + seed * q * 7 + q * q

randn(gen, off) == NormalVals[1 + (Mix(gen.seed, gen.pos + off) % Len(NormalVals))]
rand(gen, off)  == UniformVals[1 + (Mix(gen.seed, gen.pos + off) % Len(UniformVals))]

manual_seed(seed) == [seed |-> seed, pos |-> 0]
advance(gen, n)   == [gen EXCEPT !.pos = @ + n]

\* 100 * exp(x / 1000)
ExpKnots ==
    << <<-800, 45>>, <<-600, 55>>, <<-400, 67>>, <<-200, 82>>, <<-100, 90>>,
       <<0, 100>>, <<100, 111>>, <<200, 122>>, <<400, 149>>, <<600, 182>>,
       <<800, 223>> >>
ExpPct(x) == Interp(ExpKnots, x)

\* a factor returned as computed
unclamped_factor(params) == params

\* torch.clamp(params, min=0.7, max=1.3), factors in percent
clamp_factor(params) == ClampF(params, 70, 130)

\* generate_jump_diffusion_parameter_seq: price factors in percent, drawn
\* from the generator at gen: E*H normals, then E*H uniforms, then E*H normals
generate_jump_diffusion_parameter_seq(num_samples_expect, horizon, gen) ==
    LET n == num_samples_expect * horizon
        at(e, t) == (e - 1) * horizon + (t - 1)
    IN  [e \in 1..num_samples_expect |-> [t \in 1..horizon |->
            LET z == randn(gen, at(e, t))
                diffusion_factor == ExpPct(2 * z)            \* exp(0.02 z)
                jump_mask == rand(gen, n + at(e, t)) < 5     \* jump_prob 0.05
                z_jump == randn(gen, 2 * n + at(e, t))
                jump_factor == IF jump_mask THEN ExpPct(10 * z_jump) ELSE 100
                params == RoundDiv(diffusion_factor * jump_factor, 100)
            IN  clamp_factor(params)]]

\* noise_distribution.rsample(sample_shape): eps[i][t][j] in tenths
rsample(cfg, gen) ==
    [i \in 1..cfg.num_samples |-> [t \in 1..cfg.horizon |->
        [j \in 1..cfg.dim_control |->
            randn(gen, ((i - 1) * cfg.horizon + (t - 1)) * cfg.dim_control + (j - 1))]]]

\* ------------------------------------------------------------------------
\* optimizer/controller.py: S_MPPI
\* ------------------------------------------------------------------------
NumSamples == 2
NumSamplesExpect == 1

\* sum of f[1], ..., f[n]
RECURSIVE SumFn(_, _)
SumFn(f, n) == IF n <= 0 THEN 0 ELSE Add(SumFn(f, n - 1), f[n])

\* optimizer/config_for_mppi.py (num_samples and num_samples_expect scaled
\* down to the model's bounds)
MPPI_CONFIG ==
    [ PROPOSE |-> TRUE, horizon |-> 1,
      num_samples |-> NumSamples, num_samples_expect |-> NumSamplesExpect,
      dim_state |-> 4, dim_control |-> 2,
      u_min |-> <<-600, -1200>>, u_max |-> <<600, 1200>>,
      sigmas |-> <<120, 240>>, lambda_ |-> 1 ]

\* __init__ raises: the three shape assertions, torch.inverse of a singular
\* covariance, and tensors of negative size
ConstructRaises(cfg) ==
    \/ Len(cfg.u_min) # cfg.dim_control
    \/ Len(cfg.u_max) # cfg.dim_control
    \/ Len(cfg.sigmas) # cfg.dim_control
    \/ \E j \in 1..cfg.dim_control : cfg.sigmas[j] = 0
    \/ cfg.num_samples < 0
    \/ cfg.horizon < 0
    \/ cfg.num_samples_expect < 0

zero_mean_seq(cfg) == [t \in 1..cfg.horizon |-> [j \in 1..cfg.dim_control |-> 0]]

\* rsample of N(0, diag(sigmas^2)): |sigma_j| * eps, eps standard normal in
\* tenths
action_noises(cfg, eps) ==
    [i \in 1..cfg.num_samples |-> [t \in 1..cfg.horizon |->
        [j \in 1..cfg.dim_control |->
            RoundDiv(AbsF(cfg.sigmas[j]) * eps[i][t][j], 10)]]]

\* torch.clamp(mean_action_seq + action_noises, u_min, u_max)
perturb(cfg, mean_action_seq, eps) ==
    LET noises == action_noises(cfg, eps)
    IN  [i \in 1..cfg.num_samples |-> [t \in 1..cfg.horizon |->
            [j \in 1..cfg.dim_control |->
                ClampF(Add(mean_action_seq[t][j], noises[i][t][j]),
                       cfg.u_min[j], cfg.u_max[j])]]]

\* the states x_0 .. x_t of one rollout, as a sequence of length t + 1
RECURSIVE rollout(_, _, _, _)
rollout(state, useq, pseq, t) ==
    IF t <= 0 THEN <<state>>
    ELSE LET prev == rollout(state, useq, pseq, t - 1)
         IN  Append(prev, uniswap_dynamics(prev[t], useq[t], pseq[t]))

\* mean_action_seq[t] @ inv_covariance @ perturbed[t], in cost units
action_cost(cfg, mean_t, pert_t) ==
    SumFn([j \in 1..cfg.dim_control |->
              LET prod == Mul(mean_t[j], pert_t[j])
              IN  IF IsFinite(prod)
                  THEN 1000 * RoundDiv(prod * 100, cfg.sigmas[j] * cfg.sigmas[j])
                  ELSE prod],
          cfg.dim_control)

\* total cost of one outer sample: stage, action and terminal costs averaged
\* over its num_samples_expect rollouts traj, summed over the horizon
sample_cost(cfg, traj, mean_action_seq, useq) ==
    LET H == cfg.horizon
        E == cfg.num_samples_expect
        stage_costs == [t \in 1..H |->
            DivF(SumFn([e \in 1..E |-> stage_cost(traj[e][t], useq[t])], E), E)]
        action_costs == [t \in 1..H |->
            DivF(SumFn([e \in 1..E |->
                      action_cost(cfg, mean_action_seq[t], useq[t])], E), E)]
        terminal_costs ==
            DivF(SumFn([e \in 1..E |-> terminal_cost(traj[e][H + 1])], E), E)
    IN  Add(Add(SumFn(stage_costs, H), terminal_costs),
            SumFn([t \in 1..H |-> Mul(cfg.lambda_, action_costs[t])], H))

\* -costs / lambda_
logit(cost, lambda_) ==
    IF cost = NaN THEN NaN
    ELSE IF lambda_ = 0
         THEN (IF cost = 0 THEN NaN ELSE IF cost > 0 THEN NInf ELSE PInf)
    ELSE IF ~IsFinite(cost)
         THEN (IF Sign(cost) * Sign(lambda_) > 0 THEN NInf ELSE PInf)
    ELSE IF lambda_ > 0 THEN -RoundDiv(cost, lambda_)
    ELSE RoundDiv(cost, -lambda_)

\* weights are fixed-point numbers: WOne is the weight 1.0
WOne == 10^4
ExpOne == 2^16
ExpCutoff == 12 * (10^5)

\* ExpOne * exp(-d * 1e-5) for d >= 0: 2^(-y) with y = d * 1e-5 * log2(e),
\* linear between consecutive integers y; underflows to 0 beyond ExpCutoff
ExpNeg(d) ==
    IF d >= ExpCutoff THEN 0
    ELSE LET ym == (d * 1443) \div 100000
             n  == ym \div 1000
             f  == ym % 1000
         IN  RoundDiv(ExpOne * (2000 - f), 2000 * (2^n))

RECURSIVE MaxFn(_, _)
MaxFn(f, n) == IF n = 1 THEN f[1] ELSE MaxF(MaxFn(f, n - 1), f[n])

\* torch.softmax(logits, dim=0) over n entries
softmax(logits, n) ==
    IF n = 0 THEN << >>
    ELSE LET mx == MaxFn(logits, n)
         IN  IF mx = NaN \/ mx = PInf \/ mx = NInf
             THEN [i \in 1..n |-> NaN]
             ELSE LET num == [i \in 1..n |->
                                IF logits[i] = NInf THEN 0
                                ELSE ExpNeg(mx - logits[i])]
                      den == SumFn(num, n)
                  IN  [i \in 1..n |-> RoundDiv(num[i] * WOne, den)]

\* weight * value for a fixed-point weight
WMul(w, v) ==
    IF w = NaN \/ v = NaN THEN NaN ELSE w * v

\* torch.sum(weights.view(K, 1, 1) * perturbed_action_seqs, dim=0)
weighted_sum(cfg, weights, perturbed) ==
    [t \in 1..cfg.horizon |-> [j \in 1..cfg.dim_control |->
        LET s == SumFn([i \in 1..cfg.num_samples |->
                           WMul(weights[i], perturbed[i][t][j])],
                       cfg.num_samples)
        IN  IF s = NaN THEN NaN ELSE RoundDiv(s, WOne)]]

threshold_center == 60
threshold_width == 120

\* a deadband with the two thresholds exchanged
deadband_swapped(a) ==
    [j \in DOMAIN a |->
        IF j = 1 /\ Lt(AbsF(a[1]), threshold_width) THEN 0
        ELSE IF j = 2 /\ Lt(AbsF(a[2]), threshold_center) THEN 0
        ELSE a[j]]

\* the in-place deadband on optimal_action_seq[0]
deadband(a) ==
    [j \in DOMAIN a |->
        IF j = 1 /\ Lt(AbsF(a[1]), threshold_center) THEN 0
        ELSE IF j = 2 /\ Lt(AbsF(a[2]), threshold_width) THEN 0
        ELSE a[j]]

\* S_MPPI.__init__(cfg, seed) from generator state gen: the new controller
\* object, or a raise; torch.manual_seed runs first in either case
S_MPPI_init(cfg, seed) ==
    LET gen0 == manual_seed(seed)
    IN  IF ConstructRaises(cfg)
        THEN [raised |-> TRUE, gen |-> gen0, self |-> [live |-> FALSE]]
        ELSE LET eps == rsample(cfg, gen0)
                 n   == cfg.num_samples * cfg.horizon * cfg.dim_control
             IN  [raised |-> FALSE,
                  gen    |-> advance(gen0, n),
                  self   |->
                    [live |-> TRUE,
                     cfg  |-> cfg,
                     perturbed_action_seqs |-> perturb(cfg, zero_mean_seq(cfg), eps),
                     previous_action_seq   |-> zero_mean_seq(cfg),
                     state_seq_batch |->
                        [i \in 1..cfg.num_samples |-> [t \in 1..(cfg.horizon + 1) |->
                            [d \in 1..cfg.dim_state |-> 0]]],
                     state_seq_batch_exp |-> << >>,
                     weights |-> [i \in 1..cfg.num_samples |-> 0]]]

\* a forward call that starts from the zero sequence again
reset_mean_seq(self) == zero_mean_seq(self.cfg)

\* mean_action_seq = self._previous_action_seq.clone().detach()
warm_start(self) == self.previous_action_seq

\* a shape assertion that accepts a longer state
shape_at_least(cfg, state) == Len(state) >= cfg.dim_state

\* assert state.shape == (self._dim_state,)
state_shape_ok(cfg, state) == Len(state) = cfg.dim_state

\* S_MPPI.forward(state) on controller object self with the generator at gen.
\* raised: "none", "AssertionError" (state shape) or "IndexError" (horizon 0)
forward(self, state, gen) ==
    LET cfg == self.cfg
        K == cfg.num_samples
        H == cfg.horizon
        E == cfg.num_samples_expect
    IN  IF ~state_shape_ok(cfg, state)
        THEN [raised |-> "AssertionError", self |-> self, gen |-> gen]
        ELSE
        LET mean_action_seq == warm_start(self)
            eps  == rsample(cfg, gen)
            gen1 == advance(gen, K * H * cfg.dim_control)
            perturbed == perturb(cfg, mean_action_seq, eps)
            batch == [i \in 1..K |-> [self.state_seq_batch[i] EXCEPT ![1] = state]]
            params == IF cfg.PROPOSE
                      THEN generate_jump_diffusion_parameter_seq(E, H, gen1)
                      ELSE generate_constant_parameter_seq(E, H)
            gen2 == IF cfg.PROPOSE THEN advance(gen1, 3 * E * H) ELSE gen1
            batch_exp == [i \in 1..K |-> [e \in 1..E |->
                            rollout(state, perturbed[i], params[e], H)]]
            costs == [i \in 1..K |->
                        sample_cost(cfg, batch_exp[i], mean_action_seq, perturbed[i])]
            weights == softmax([i \in 1..K |-> logit(costs[i], cfg.lambda_)], K)
            optimal_action_seq == weighted_sum(cfg, weights, perturbed)
            \* current_action is a view of optimal_action_seq[0], which is the
            \* object stored in previous_action_seq: the deadband writes all three
            current_action == deadband(optimal_action_seq[1])
            stored == [optimal_action_seq EXCEPT ![1] = current_action]
            updated(seq) ==
                [self EXCEPT !.perturbed_action_seqs = perturbed,
                             !.state_seq_batch = batch,
                             !.state_seq_batch_exp = batch_exp,
                             !.weights = weights,
                             !.previous_action_seq = seq]
        IN  IF H = 0
            THEN [raised |-> "IndexError", self |-> updated(optimal_action_seq),
                  gen |-> gen2, mean_action_seq |-> mean_action_seq,
                  weighted |-> optimal_action_seq]
            ELSE [raised |-> "none", self |-> updated(stored), gen |-> gen2,
                  mean_action_seq |-> mean_action_seq,
                  weighted |-> optimal_action_seq,
                  current_action |-> current_action,
                  optimal_action_seq |-> stored]

\* ------------------------------------------------------------------------
\* optimizer/rebalancer.py and core/mppi_bot.py: pure parts
\* ------------------------------------------------------------------------
\* a truncation that leaves the tick as it is
skip_truncation(tick, spacing) == tick

\* (tick // tick_spacing) * tick_spacing, tick_spacing >= 1
truncate_tick(tick, spacing) == (tick \div spacing) * spacing

\* Python max(a, b): b if b > a, else a (a NaN b is never greater)
PyMax(a, b) == IF Gt(b, a) THEN b ELSE a

\* rebalancer.py lines 102-111 on the two float prices; raises when
\* price_to_tick raises
target_range_of(lower_price, upper_price, spacing) ==
    IF PriceRaises(lower_price) \/ PriceRaises(upper_price)
    THEN [raised |-> TRUE, degenerate |-> FALSE]
    ELSE LET c  == clamp_ticks(price_to_tick(lower_price), price_to_tick(upper_price))
             lo == truncate_tick(c[1], spacing)
             up == truncate_tick(c[2], spacing)
         IN  [raised |-> FALSE, lower |-> lo,
              upper  |-> IF lo >= up THEN lo + spacing ELSE up,
              degenerate |-> lo >= up]

tick_spacing == 60
DefaultWidth == 4000
NoState == << >>
NoPos == << >>
NoRow == << >>
NoRange == << >>

\* MPPIBot.price_to_tick = int(log(price) / log(1.0001))
bot_price_to_tick(price) == TruncToInt(price, LogScale)

\* a state assembled from the tick bounds without the fallback: the
\* arithmetic on the missing bounds raises, the method catches and returns
\* None
fetch_without_fallback(row, pos) ==
    IF row = NoRow \/ pos = NoPos THEN NoState
    ELSE IF PriceRaises(row[1]) \/ PriceRaises(row[2]) THEN NoState
    ELSE <<bot_price_to_tick(row[1]), bot_price_to_tick(row[2]),
           (pos[1] + pos[2]) \div 2, pos[2] - pos[1]>>

\* MPPIBot.fetch_current_state: the state vector, or NoState (no row, or an
\* exception, which the method catches)
fetch_current_state(row, pos) ==
    IF row = NoRow THEN NoState
    ELSE IF PriceRaises(row[1]) \/ PriceRaises(row[2]) THEN NoState
    ELSE LET t_market == bot_price_to_tick(row[1])
             t_pool   == bot_price_to_tick(row[2])
         IN  IF pos = NoPos
             THEN <<t_market, t_pool, truncate_tick(t_pool, tick_spacing), DefaultWidth>>
             ELSE <<t_market, t_pool, (pos[1] + pos[2]) \div 2, pos[2] - pos[1]>>

\* truncate_tick(int(round(center -/+ width / 2))), then the degenerate guard
bot_range(center, width) ==
    LET lo == truncate_tick(RoundHalfEven(2 * center - width, 2), tick_spacing)
        up == truncate_tick(RoundHalfEven(2 * center + width, 2), tick_spacing)
    IN  <<lo, IF lo >= up THEN lo + tick_spacing ELSE up>>

\* ------------------------------------------------------------------------
\* The state machine
\* ------------------------------------------------------------------------
MaxCalls == 3
NumSeeds == 2
DefaultSeed == 42

VARIABLES
    rng,        \* the global torch generator, [seed, pos]
    owner,      \* who holds the controller: "none", "api", "rebalancer", "bot"
    mppi,       \* the S_MPPI object, [live |-> FALSE] before construction
    calls,      \* forward calls made so far
    ret,        \* what the last operation returned or raised
    position,   \* the bot's active on-chain position <<lower, upper>>, or NoPos
    emitted,    \* the range the last operation handed to the executor
    fleet       \* the controllers of independent positions in this process

vars == <<rng, owner, mppi, calls, ret, position, emitted, fleet>>

\* the controllers of two independent positions, each driven by its own loop
Names == {"A", "B"}
\* a position whose controller is not constructed yet: obj is the S_MPPI
\* object, inflight the forward calls that have read the stored mean
\* sequence and not yet returned, done the calls that returned, in order
NoController ==
    [obj |-> [live |-> FALSE], seed |-> 0, inflight |-> << >>, done |-> << >>]

\* constructor arguments tried through the public constructor
Configs ==
    { MPPI_CONFIG,
      [MPPI_CONFIG EXCEPT !.PROPOSE = FALSE],
      [MPPI_CONFIG EXCEPT !.horizon = 2],
      [MPPI_CONFIG EXCEPT !.u_min = <<600, -1200>>],
      [MPPI_CONFIG EXCEPT !.u_min = <<-600, 1300>>],
      [MPPI_CONFIG EXCEPT !.sigmas = <<0, 240>>],
      [MPPI_CONFIG EXCEPT !.sigmas = <<120, -240>>],
      [MPPI_CONFIG EXCEPT !.lambda_ = 0],
      [MPPI_CONFIG EXCEPT !.lambda_ = -1],
      [MPPI_CONFIG EXCEPT !.horizon = 0],
      [MPPI_CONFIG EXCEPT !.horizon = -1],
      [MPPI_CONFIG EXCEPT !.num_samples = 0],
      [MPPI_CONFIG EXCEPT !.num_samples = -1],
      [MPPI_CONFIG EXCEPT !.num_samples_expect = 0],
      [MPPI_CONFIG EXCEPT !.num_samples_expect = -1],
      [MPPI_CONFIG EXCEPT !.u_min = <<-600>>],
      [MPPI_CONFIG EXCEPT !.u_max = <<600, 1200, 1200>>],
      [MPPI_CONFIG EXCEPT !.sigmas = <<120>>] }

\* state vectors passed to forward through the public method
StateInputs ==
    { <<1000, 1000, 1000, 4000>>,
      <<1500, 1000, 1000, 600>>,
      <<500, 1000, 1000, 600>>,
      <<0, 40, 0, 60>>,
      <<NaN, 1000, 1000, 4000>>,
      <<1000, 1000, 1000, NaN>>,
      <<1000, 1000, 1000>>,
      <<1000, 1000, 1000, 4000, 0>> }

\* active positions of the pool: ticks are multiples of tick_spacing
Positions == { NoPos, <<-1020, 3000>>, <<960, 1080>>,
               <<883200, 887220>>, <<-887220, -887100>>, <<-887220, 887220>> }

Init ==
    /\ rng = manual_seed(0)
    /\ owner = "none"
    /\ mppi = [live |-> FALSE]
    /\ calls = 0
    /\ ret = [op |-> "none", raised |-> "none", after |-> "none"]
    /\ position = NoPos
    /\ emitted = NoRange
    /\ fleet = [c \in Names |-> NoController]

NoValue == << >>

\* what a call that ran forward leaves for its caller: the exception forward
\* raised ("none" if it returned), the exception the caller raised after
\* forward returned (after), whether the degenerate-range guard fired, the
\* state passed, the stored mean sequence before the call (pre) and
\* forward's locals and return values
CallRecord(op, state, pre, r, after, degenerate) ==
    [op |-> op, raised |-> r.raised, after |-> after, degenerate |-> degenerate,
     state |-> state, pre |-> pre,
     mean_action_seq |->
        IF r.raised = "AssertionError" THEN NoValue ELSE r.mean_action_seq,
     weighted |-> IF r.raised = "AssertionError" THEN NoValue ELSE r.weighted,
     current_action |-> IF r.raised = "none" THEN r.current_action ELSE NoValue,
     optimal_action_seq |->
        IF r.raised = "none" THEN r.optimal_action_seq ELSE NoValue]

\* what a construction leaves for its caller: "Exception" if __init__ raised
InitRecord(r, cfg) ==
    [op |-> "init", raised |-> IF r.raised THEN "Exception" ELSE "none",
     after |-> "none", cfg |-> cfg]

\* S_MPPI(...) called directly
Construct(cfg, seed) ==
    /\ owner = "none"
    /\ \E r \in {S_MPPI_init(cfg, seed)} :
           /\ rng' = r.gen
           /\ mppi' = r.self
           /\ owner' = IF r.raised THEN "none" ELSE "api"
           /\ ret' = InitRecord(r, cfg)
    /\ UNCHANGED <<calls, position, emitted, fleet>>

\* S_MPPI.forward(state) called directly
Forward(state) ==
    /\ owner = "api"
    /\ calls < MaxCalls
    /\ \E r \in {forward(mppi, state, rng)} :
           /\ rng' = r.gen
           /\ mppi' = r.self
           /\ ret' = CallRecord("forward", state, mppi.previous_action_seq, r,
                                 "none", FALSE)
    /\ calls' = calls + 1
    /\ UNCHANGED <<owner, position, emitted, fleet>>

\* torch.topk and torch.argsort order NaN above every number
SortKey(w) == IF w = NaN THEN PInf + 1 ELSE w

\* the index sequences torch.topk(weights, k).indices can return, reordered
\* by argsort(descending=True): k distinct indices of largest weights in
\* descending order of weight, ties in any order
TopIndices(weights, k) ==
    { idx \in [1..k -> DOMAIN weights] :
        /\ \A m, n \in 1..k : m < n =>
              /\ idx[m] # idx[n]
              /\ SortKey(weights[idx[m]]) >= SortKey(weights[idx[n]])
        /\ \A j \in DOMAIN weights :
              (\A n \in 1..k : idx[n] # j) =>
                  \A n \in 1..k : SortKey(weights[idx[n]]) >= SortKey(weights[j]) }

\* S_MPPI.get_top_samples(num_samples) called directly
GetTopSamples(k) ==
    /\ owner = "api"
    /\ mppi.live
    /\ IF k > mppi.cfg.num_samples
       THEN ret' = [op |-> "get_top_samples", raised |-> "AssertionError",
                    after |-> "none", k |-> k]
       ELSE \E top_indices \in TopIndices(mppi.weights, k) :
                ret' = [op |-> "get_top_samples", raised |-> "none",
                        after |-> "none", k |-> k,
                        top_indices |-> top_indices,
                        top_samples |-> [n \in 1..k |->
                                           mppi.state_seq_batch[top_indices[n]]],
                        top_weights |-> [n \in 1..k |->
                                           mppi.weights[top_indices[n]]]]
    /\ UNCHANGED <<rng, owner, mppi, calls, position, emitted, fleet>>

\* MPPIRebalancer(): a controller built from MPPI_CONFIG
MPPIRebalancer_init ==
    /\ owner = "none"
    /\ \E r \in {S_MPPI_init(MPPI_CONFIG, DefaultSeed)} :
           /\ rng' = r.gen
           /\ mppi' = r.self
           /\ ret' = InitRecord(r, MPPI_CONFIG)
    /\ owner' = "rebalancer"
    /\ UNCHANGED <<calls, position, emitted, fleet>>

\* state vectors compute_action builds (price units)
RebalStates == { <<2000, 2000, 2000, 400>>, <<NaN, 2000, 2000, 400>> }
\* float prices lower_price/upper_price reach in compute_target_range: a
\* price <= 0 (NInf), or a price between 1e-18 and 1e19.  lower_price is
\* new_center - new_width / 2 with new_width >= 0.01, whose float spacing
\* near 0 is about 1e-18; the costs of a state beyond 1e19 overflow float32
\* and make the action NaN.
TargetPriceVals ==
    { t * LogScale + h : t \in {-414000, 59, 437000}, h \in {0, 1} }
    \cup {NInf}
\* tick spacings of a pool: 1 up to the protocol's largest
Spacings == {1, tick_spacing, 32767}

\* MPPIRebalancer.compute_target_range.  The float arithmetic on prices of
\* lines 84-100 is not computed: lower_price <= upper_price are any two
\* prices, NaN when the action's delta_center is NaN.
ComputeTargetRange(state, lower_price, upper_price, spacing) ==
    /\ owner = "rebalancer"
    /\ calls < MaxCalls
    /\ Le(lower_price, upper_price)
    /\ \E r \in {forward(mppi, state, rng)} :
       \E nan \in {IsNaN(r.current_action[1])} :
       \E tr \in {target_range_of(IF nan THEN NaN ELSE lower_price,
                                  IF nan THEN NaN ELSE upper_price, spacing)} :
           /\ rng' = r.gen
           /\ mppi' = r.self
           /\ ret' = CallRecord("compute_target_range", state,
                                 mppi.previous_action_seq, r,
                                 IF tr.raised THEN "ValueError" ELSE "none",
                                 tr.degenerate)
           /\ emitted' = IF tr.raised THEN NoRange
                         ELSE <<tr.lower, tr.upper, spacing>>
    /\ calls' = calls + 1
    /\ UNCHANGED <<owner, position, fleet>>

\* MPPIBot(): a controller built from MPPI_CONFIG; pos is the position the
\* account holds in the pool when the bot starts
MPPIBot_init(pos) ==
    /\ owner = "none"
    /\ \E r \in {S_MPPI_init(MPPI_CONFIG, DefaultSeed)} :
           /\ rng' = r.gen
           /\ mppi' = r.self
           /\ ret' = InitRecord(r, MPPI_CONFIG)
    /\ owner' = "bot"
    /\ position' = pos
    /\ UNCHANGED <<calls, emitted, fleet>>

\* rows of price_history the bot can read, around an anchor tick
Rows(anchor) ==
    { NoRow, <<NInf, anchor * LogScale>>,
      <<anchor * LogScale, anchor * LogScale>>,
      <<(anchor + 200) * LogScale, anchor * LogScale>>,
      <<(anchor + 500) * LogScale + 1, (anchor - 10) * LogScale - 1>> }
Anchor(pos) == IF pos = NoPos THEN 1000 ELSE (pos[1] + pos[2]) \div 2
ExecOutcomes == {"minted", "burned_only", "raised"}

\* a test of delta_center alone
proposes_on_center(delta_center, delta_width) == Gt(AbsF(delta_center), 0)

\* abs(delta_center) > 0 or abs(delta_width) > 0
proposes_rebalance(delta_center, delta_width) ==
    Gt(AbsF(delta_center), 0) \/ Gt(AbsF(delta_width), 0)

\* a loop in which nothing catches
no_handler(site) == "none"

\* the except clause that catches an exception raised at a site of the
\* cycle: fetch_current_state and execute_rebalance wrap their bodies, the
\* rest of the iteration is inside the try of run
handler(site) ==
    IF site = "fetch" THEN "fetch_current_state"
    ELSE IF site = "execute" THEN "execute_rebalance"
    ELSE "run"

\* the loop after an iteration in which an exception was raised at site
\* ("none": no exception): it goes on unless the exception escapes run
loop_after(site) ==
    IF site # "none" /\ handler(site) = "none" THEN "terminated" ELSE "bot"

\* the handler that caught the exception of the iteration, "none" without
\* an exception
caught_at(site) == IF site = "none" THEN "none" ELSE handler(site)

\* the last operation was an iteration of run in which an exception was
\* raised
CycleRaised == ret.op = "run" /\ ret.site # "none"

\* one iteration of MPPIBot.run
RunCycle(row, outcome) ==
    /\ owner = "bot"
    /\ calls < MaxCalls
    /\ \E state \in {fetch_current_state(row, position)} :
          IF state = NoState
          THEN \E site \in {IF row = NoRow THEN "none" ELSE "fetch"} :
               /\ ret' = [op |-> "run", raised |-> "none", after |-> "none",
                           state |-> NoState, row |-> row, pos |-> position,
                           site |-> site, caught |-> caught_at(site),
                           after_raise |-> CycleRaised]
               /\ owner' = loop_after(site)
               /\ emitted' = NoRange
               /\ UNCHANGED <<rng, mppi, calls, position>>
          ELSE
          \E r \in {forward(mppi, state, rng)} :
          \E delta_center \in {r.current_action[1]},
             delta_width \in {r.current_action[2]} :
          \E new_center \in {Add(state[3], delta_center)},
             new_width \in {PyMax(2 * tick_spacing,
                                  Add(PyMax(2 * tick_spacing, state[4]), delta_width))} :
          \E proposes \in {proposes_rebalance(delta_center, delta_width)},
             \* round() of a NaN raises; run's except clause catches it
             round_raises \in {IsNaN(new_center) \/ IsNaN(new_width)} :
          \E new \in {IF round_raises THEN NoRange
                      ELSE bot_range(new_center, new_width)},
             site \in {IF proposes /\ round_raises THEN "round"
                       ELSE IF proposes /\ outcome = "raised" THEN "execute"
                       ELSE "none"} :
              /\ rng' = r.gen
              /\ mppi' = r.self
              /\ calls' = calls + 1
              /\ ret' = CallRecord("run", state, mppi.previous_action_seq, r,
                                    IF proposes /\ round_raises
                                    THEN "ValueError" ELSE "none",
                                    FALSE)
                         @@ [row |-> row, pos |-> position,
                             site |-> site, caught |-> caught_at(site),
                             after_raise |-> CycleRaised]
              /\ owner' = loop_after(site)
              /\ emitted' = IF proposes /\ ~round_raises
                            THEN <<new[1], new[2], tick_spacing>>
                            ELSE NoRange
              /\ position' = IF ~proposes \/ round_raises \/ outcome = "raised"
                             THEN position
                             ELSE IF outcome = "minted" THEN new
                             ELSE NoPos
    /\ UNCHANGED fleet

Next ==
    \/ \E cfg \in Configs, seed \in 1..NumSeeds : Construct(cfg, seed)
    \/ \E state \in StateInputs : Forward(state)
    \/ \E k \in 0..(NumSamples + 1) : GetTopSamples(k)
    \/ MPPIRebalancer_init
    \/ \E state \in RebalStates, lp \in TargetPriceVals, up \in TargetPriceVals,
          spacing \in Spacings : ComputeTargetRange(state, lp, up, spacing)
    \/ \E pos \in Positions : MPPIBot_init(pos)
    \/ \E row \in Rows(Anchor(position)), outcome \in ExecOutcomes :
          RunCycle(row, outcome)

Spec == Init /\ [][Next]_vars

\* ------------------------------------------------------------------------
\* The functions of optimizer/utils.py called on their own: the arguments
\* are drawn at the start, one action applies the function to them
\* ------------------------------------------------------------------------
MaxOuter == 2
MaxHorizon == 2
MaxGenSeed == 12
\* scalars drawn from the generator before the call
MaxDrawn == 10

\* states <<t_market, t_pool, t_center, width_ticks>>: the pool tick inside,
\* on the edge of and outside the range, widths below and above the floor
DynStates ==
    { <<m, p, 1000, w>> : m \in {1000, 1500, 4000},
                          p \in {-500, 1000, 1200, 4000},
                          w \in {60, 400, 4000} }
DynActions == { <<0, 0>>, <<600, -1200>>, <<-290, 131>> }
\* positive price factors, in percent
DynParams == {70, 100, 130}
\* actions whose summed magnitude is 0, 60, 61, 120, 121 and 1800
CostActions ==
    { <<0, 0>>, <<60, 0>>, <<-30, 31>>, <<0, -120>>, <<100, -21>>,
      <<600, -1200>> }

DynamicsInit ==
    /\ owner = "none"
    /\ mppi = [live |-> FALSE]
    /\ calls = 0
    /\ position = NoPos
    /\ emitted = NoRange
    /\ fleet = [c \in Names |-> NoController]
    /\ \/ /\ rng = manual_seed(0)
          /\ \E state \in DynStates, action \in DynActions, params \in DynParams :
                ret = [op |-> "arguments", raised |-> "none", after |-> "none",
                       of |-> "uniswap_dynamics",
                       state |-> state, action |-> action, params |-> params]
       \/ /\ rng = manual_seed(0)
          /\ \E state \in DynStates, action \in CostActions :
                ret = [op |-> "arguments", raised |-> "none", after |-> "none",
                       of |-> "stage_cost", state |-> state, action |-> action]
       \/ /\ \E seed \in 0..MaxGenSeed, drawn \in 0..MaxDrawn :
                rng = advance(manual_seed(seed), drawn)
          /\ \E num_outer \in 1..MaxOuter, horizon \in 1..MaxHorizon :
                ret = [op |-> "arguments", raised |-> "none", after |-> "none",
                       of |-> "generate_jump_diffusion_parameter_seq",
                       num_outer |-> num_outer, horizon |-> horizon]

\* uniswap_dynamics(state, action, params)
Step ==
    /\ ret.op = "arguments"
    /\ ret.of = "uniswap_dynamics"
    /\ ret' = [op |-> "uniswap_dynamics", raised |-> "none", after |-> "none",
               state |-> ret.state, action |-> ret.action, params |-> ret.params,
               next |-> uniswap_dynamics(ret.state, ret.action, ret.params)]
    /\ UNCHANGED <<rng, owner, mppi, calls, position, emitted, fleet>>

\* generate_jump_diffusion_parameter_seq(num_outer, horizon)
Generate ==
    /\ ret.op = "arguments"
    /\ ret.of = "generate_jump_diffusion_parameter_seq"
    /\ ret' = [op |-> "generate_jump_diffusion_parameter_seq",
               raised |-> "none", after |-> "none",
               num_outer |-> ret.num_outer, horizon |-> ret.horizon,
               jumped |-> \E q \in 0..(ret.num_outer * ret.horizon - 1) :
                             rand(rng, ret.num_outer * ret.horizon + q) < 5,
               params |-> generate_jump_diffusion_parameter_seq(
                              ret.num_outer, ret.horizon, rng)]
    /\ rng' = advance(rng, 3 * ret.num_outer * ret.horizon)
    /\ UNCHANGED <<owner, mppi, calls, position, emitted, fleet>>

\* stage_cost(state, action), and stage_cost of the same state with the
\* zero action (idle): the two differ by the rebalancing-cost term only
Cost ==
    /\ ret.op = "arguments"
    /\ ret.of = "stage_cost"
    /\ ret' = [op |-> "stage_cost", raised |-> "none", after |-> "none",
               state |-> ret.state, action |-> ret.action,
               cost |-> stage_cost(ret.state, ret.action),
               idle |-> stage_cost(ret.state, <<0, 0>>)]
    /\ UNCHANGED <<rng, owner, mppi, calls, position, emitted, fleet>>

DynamicsNext == Step \/ Generate \/ Cost

DynamicsSpec == DynamicsInit /\ [][DynamicsNext]_vars

\* ------------------------------------------------------------------------
\* Several controllers in one process.  Each position has its own S_MPPI
\* object and its own control loop; torch's generator is the process's.
\* calls counts the forward calls entered in the process.
\* ------------------------------------------------------------------------
FleetStates == { <<1000, 1000, 1000, 4000>>, <<1500, 1000, 1000, 600>> }

\* a loop that calls forward again before the previous call has returned
reentrant(inflight) == TRUE

\* the loop is between two iterations: forward is called synchronously, the
\* next iteration starts after the call has returned
serialized(inflight) == inflight = << >>

\* S_MPPI(...) for position c
FleetConstruct(c, seed) ==
    /\ ~fleet[c].obj.live
    /\ \E r \in {S_MPPI_init(MPPI_CONFIG, seed)} :
           /\ rng' = r.gen
           /\ fleet' = [fleet EXCEPT ![c] = [@ EXCEPT !.obj = r.self, !.seed = seed]]
    /\ UNCHANGED <<owner, mppi, calls, ret, position, emitted>>

\* the loop of position c calls forward(state); the call reads the stored
\* mean sequence (controller.py line 152)
ForwardEnter(c, state) ==
    /\ fleet[c].obj.live
    /\ serialized(fleet[c].inflight)
    /\ calls < MaxCalls
    /\ fleet' = [fleet EXCEPT ![c].inflight =
                    Append(@, [state |-> state,
                               mean_action_seq |-> warm_start(fleet[c].obj)])]
    /\ calls' = calls + 1
    /\ UNCHANGED <<rng, owner, mppi, ret, position, emitted>>

\* a forward call of position c in flight draws its samples, writes the
\* stored mean sequence (line 229) and returns
ForwardReturn(c, n) ==
    /\ n \in DOMAIN fleet[c].inflight
    /\ \E call \in {fleet[c].inflight[n]} :
       \E r \in {forward([fleet[c].obj EXCEPT
                              !.previous_action_seq = call.mean_action_seq],
                          call.state, rng)} :
           /\ rng' = r.gen
           /\ fleet' = [fleet EXCEPT ![c] =
                  [@ EXCEPT
                     !.obj = r.self,
                     !.inflight = [k \in 1..(Len(@) - 1) |->
                                      IF k < n THEN @[k] ELSE @[k + 1]],
                     !.done = Append(@,
                         [state |-> call.state,
                          mean_action_seq |-> call.mean_action_seq,
                          stored_before |-> fleet[c].obj.previous_action_seq,
                          current_action |-> r.current_action,
                          optimal_action_seq |-> r.optimal_action_seq])]]
    /\ UNCHANGED <<owner, mppi, calls, ret, position, emitted>>

FleetNext ==
    \/ \E c \in Names, seed \in 1..NumSeeds : FleetConstruct(c, seed)
    \/ \E c \in Names, state \in FleetStates : ForwardEnter(c, state)
    \/ \E c \in Names, n \in 1..MaxCalls : ForwardReturn(c, n)

FleetSpec == Init /\ [][FleetNext]_vars

\* ------------------------------------------------------------------------
\* A caller of the controller that writes into the tensors forward returned.
\* optimal_action_seq is the object forward has just stored in
\* self._previous_action_seq (controller.py line 229, no clone) and
\* current_action is a view of its row 0 (line 236), so the three are one
\* piece of memory until the next forward call stores a new tensor.
\* ------------------------------------------------------------------------
WrittenVals == {0, 7}

\* returned[t][j] = v, in place, through the returned optimal_action_seq
\* or through the returned current_action (t = 1)
CallerWrites(through, t, j, v) ==
    /\ owner = "api"
    /\ ret.op = "forward"
    /\ ret.raised = "none"
    /\ t \in DOMAIN ret.optimal_action_seq
    /\ j \in DOMAIN ret.optimal_action_seq[t]
    /\ through = "current_action" => t = 1
    /\ \E seq \in {[ret.optimal_action_seq EXCEPT ![t][j] = v]} :
           /\ ret' = [op |-> "write", raised |-> "none", after |-> "none",
                      through |-> through,
                      stored |-> mppi.previous_action_seq,
                      optimal_action_seq |-> seq,
                      current_action |-> seq[1]]
           /\ mppi' = [mppi EXCEPT !.previous_action_seq = seq]
    /\ UNCHANGED <<rng, owner, calls, position, emitted, fleet>>

CallerNext ==
    \/ \E seed \in 1..NumSeeds : Construct(MPPI_CONFIG, seed)
    \/ \E state \in FleetStates : Forward(state)
    \/ \E through \in {"optimal_action_seq", "current_action"},
          t \in 1..MPPI_CONFIG.horizon, j \in 1..MPPI_CONFIG.dim_control,
          v \in WrittenVals : CallerWrites(through, t, j, v)

CallerSpec == Init /\ [][CallerNext]_vars

\* ------------------------------------------------------------------------
\* One call of MPPIBot.execute_rebalance, statement by statement.  position
\* is the account's active position in the pool (nonzero liquidity), emitted
\* the target range of the call; ret.log lists the transactions sent and
\* the receipts received, ret.newer is the number of token ids the position
\* manager has issued after the position's (for other pools and accounts).
\* ------------------------------------------------------------------------
max_lookback == 10

ExecPositions == { NoPos, <<960, 1080>>, <<-1020, 3000>> }
ExecTargets == { <<900, 1140, tick_spacing>>, <<960, 1080, tick_spacing>> }
NewerTokens == { 0, max_lookback - 1, max_lookback }

\* chain/pool.py find_active_position: the range of the most recent position
\* of the pool among the last max_lookback token ids, NoPos if there is
\* none or if nextTokenId() raises (the exception is swallowed)
find_active_position(pos, newer, rpc_ok) ==
    IF ~rpc_ok THEN NoPos
    ELSE IF pos = NoPos THEN NoPos
    ELSE IF newer < max_lookback THEN pos
    ELSE NoPos

ExecInit ==
    /\ rng = manual_seed(0)
    /\ owner = "bot"
    /\ mppi = [live |-> FALSE]
    /\ calls = 0
    /\ fleet = [c \in Names |-> NoController]
    /\ position \in ExecPositions
    /\ emitted \in ExecTargets
    /\ \E newer \in NewerTokens :
          ret = [op |-> "execute_rebalance", raised |-> "none", after |-> "none",
                 pc |-> "find", newer |-> newer, had |-> position,
                 old |-> NoPos, log |-> << >>]

\* line 339: old_token_id, ... = find_active_position(self.posm, pool_id)
FindActivePosition(rpc_ok) ==
    /\ ret.op = "execute_rebalance"
    /\ ret.pc = "find"
    /\ \E old \in {find_active_position(position, ret.newer, rpc_ok)} :
          ret' = [ret EXCEPT !.old = old,
                             !.pc = IF old = NoPos THEN "mint" ELSE "burn"]
    /\ UNCHANGED <<rng, owner, mppi, calls, position, emitted, fleet>>

\* lines 357-367: the burn transaction is built, signed and sent; a raise
\* leaves the call through its except clause
SendBurn(sent) ==
    /\ ret.op = "execute_rebalance"
    /\ ret.pc = "burn"
    /\ ret' = IF sent
              THEN [ret EXCEPT !.log = Append(@, "burn_sent"), !.pc = "burn_wait"]
              ELSE [ret EXCEPT !.raised = "Exception", !.pc = "returned"]
    /\ UNCHANGED <<rng, owner, mppi, calls, position, emitted, fleet>>

\* line 368: wait_for_transaction_receipt; the status of the receipt is not
\* read.  "ok": the position is burned, "reverted": it is not
BurnReceipt(status) ==
    /\ ret.op = "execute_rebalance"
    /\ ret.pc = "burn_wait"
    /\ status \in {"ok", "reverted", "timeout"}
    /\ ret' = IF status = "timeout"
              THEN [ret EXCEPT !.raised = "Exception", !.pc = "returned"]
              ELSE [ret EXCEPT !.log = Append(@, "burn_receipt"), !.pc = "mint"]
    /\ position' = IF status = "ok" THEN NoPos ELSE position
    /\ UNCHANGED <<rng, owner, mppi, calls, emitted, fleet>>

\* lines 378-433: slot0 and the liquidity are computed; the call returns
\* False without slot0 or with zero liquidity, else the mint transaction is
\* built, signed and sent
SendMint(outcome) ==
    /\ ret.op = "execute_rebalance"
    /\ ret.pc = "mint"
    /\ outcome \in {"sent", "no_slot0", "zero_liquidity", "raised"}
    /\ ret' = IF outcome = "sent"
              THEN [ret EXCEPT !.log = Append(@, "mint_sent"), !.pc = "mint_wait"]
              ELSE IF outcome = "raised"
              THEN [ret EXCEPT !.raised = "Exception", !.pc = "returned"]
              ELSE [ret EXCEPT !.pc = "returned"]
    /\ UNCHANGED <<rng, owner, mppi, calls, position, emitted, fleet>>

\* line 434: the receipt of the mint; "ok": the new position is the
\* account's most recent one
MintReceipt(status) ==
    /\ ret.op = "execute_rebalance"
    /\ ret.pc = "mint_wait"
    /\ status \in {"ok", "reverted", "timeout"}
    /\ ret' = IF status = "timeout"
              THEN [ret EXCEPT !.raised = "Exception", !.pc = "returned"]
              ELSE [ret EXCEPT !.log = Append(@, "mint_receipt"), !.pc = "returned"]
    /\ position' = IF status = "ok" THEN <<emitted[1], emitted[2]>> ELSE position
    /\ UNCHANGED <<rng, owner, mppi, calls, emitted, fleet>>

ExecNext ==
    \/ \E rpc_ok \in BOOLEAN : FindActivePosition(rpc_ok)
    \/ \E sent \in BOOLEAN : SendBurn(sent)
    \/ \E status \in {"ok", "reverted", "timeout"} : BurnReceipt(status)
    \/ \E outcome \in {"sent", "no_slot0", "zero_liquidity", "raised"} :
          SendMint(outcome)
    \/ \E status \in {"ok", "reverted", "timeout"} : MintReceipt(status)

ExecSpec == ExecInit /\ [][ExecNext]_vars

\* controller c run alone in a process of its own: S_MPPI(seed), then
\* forward on states[1], ..., states[n]
RECURSIVE run_alone(_, _, _)
run_alone(seed, states, n) ==
    IF n = 0
    THEN LET r == S_MPPI_init(MPPI_CONFIG, seed)
         IN  [self |-> r.self, gen |-> r.gen, outs |-> << >>]
    ELSE LET prev == run_alone(seed, states, n - 1)
             r    == forward(prev.self, states[n], prev.gen)
         IN  [self |-> r.self, gen |-> r.gen,
              outs |-> Append(prev.outs,
                         [current_action |-> r.current_action,
                          optimal_action_seq |-> r.optimal_action_seq])]

\* ------------------------------------------------------------------------
\* Properties
\* ------------------------------------------------------------------------
\* the operations that call forward
ForwardOps == {"forward", "compute_target_range", "run"}
\* the last operation called forward on ret.state
CalledForward == ret.op \in ForwardOps /\ ret.state # NoState
\* the last operation's forward call returned
ReturnedForward == CalledForward /\ ret.raised = "none"

\* C1: every target range handed to the executor has tick_lower < tick_upper
\* and both bounds are integer multiples of tick_spacing, also when the
\* degenerate-range guard has fired.
C1_RangeWellFormed ==
    emitted # NoRange =>
        /\ emitted[1] < emitted[2]
        /\ emitted[1] % emitted[3] = 0
        /\ emitted[2] % emitted[3] = 0

\* a range was handed over after the degenerate-range guard fired
C1_GuardFired ==
    /\ emitted # NoRange
    /\ ret.op = "compute_target_range"
    /\ ret.degenerate
    /\ emitted[3] = tick_spacing

\* C2: both bounds of every target range handed to the executor lie within
\* the protocol-valid tick range [MIN_TICK, MAX_TICK].
C2_RangeWithinLimits ==
    emitted # NoRange =>
        /\ MIN_TICK <= emitted[1] /\ emitted[1] <= MAX_TICK
        /\ MIN_TICK <= emitted[2] /\ emitted[2] <= MAX_TICK

\* the inputs the specification calls valid
ValidConfig(cfg) ==
    /\ Len(cfg.u_min) = cfg.dim_control
    /\ Len(cfg.u_max) = cfg.dim_control
    /\ Len(cfg.sigmas) = cfg.dim_control
    /\ \A j \in 1..cfg.dim_control :
          cfg.u_min[j] < cfg.u_max[j] /\ cfg.sigmas[j] > 0
    /\ cfg.lambda_ > 0
    /\ cfg.horizon >= 1
    /\ cfg.num_samples >= 1
    /\ cfg.num_samples_expect >= 1
ValidState(state) ==
    Len(state) = 4 /\ \A d \in 1..4 : IsFinite(state[d])

\* C3: after every forward call on valid inputs the weights, one per outer
\* sample, are all non-negative and sum to 1 (within one rounding unit per
\* weight).
C3_WeightsDistribution ==
    (ReturnedForward /\ ValidConfig(mppi.cfg) /\ ValidState(ret.state)) =>
        /\ Len(mppi.weights) = mppi.cfg.num_samples
        /\ \A i \in DOMAIN mppi.weights : Ge(mppi.weights[i], 0)
        /\ LET total == SumFn(mppi.weights, Len(mppi.weights))
           IN  /\ Le(total, WOne + Len(mppi.weights))
               /\ Ge(total, WOne - Len(mppi.weights))

\* C4: every component of every perturbed action sequence lies within
\* [u_min, u_max], for the batch drawn at construction and for the batch
\* drawn in every forward call.
C4_PerturbedWithinBounds ==
    mppi.live =>
        \A i \in DOMAIN mppi.perturbed_action_seqs :
        \A t \in DOMAIN mppi.perturbed_action_seqs[i] :
        \A j \in DOMAIN mppi.perturbed_action_seqs[i][t] :
            /\ Ge(mppi.perturbed_action_seqs[i][t][j], mppi.cfg.u_min[j])
            /\ Le(mppi.perturbed_action_seqs[i][t][j], mppi.cfg.u_max[j])

\* C5: the immediate action forward returns is the first element of the
\* weighted sum with each component zeroed exactly when its magnitude is
\* below its threshold (60 for delta_center, 120 for delta_width) and passed
\* unchanged otherwise.
C5_Deadband ==
    ReturnedForward =>
        /\ ret.current_action[1] =
              IF Lt(AbsF(ret.weighted[1][1]), 60) THEN 0 ELSE ret.weighted[1][1]
        /\ ret.current_action[2] =
              IF Lt(AbsF(ret.weighted[1][2]), 120) THEN 0 ELSE ret.weighted[1][2]

\* forward zeroed a nonzero delta_center and passed a delta_width through
C5_ZeroedAndPassed ==
    /\ ReturnedForward
    /\ IsFinite(ret.weighted[1][1]) /\ ret.weighted[1][1] # 0
    /\ ret.current_action[1] = 0
    /\ IsFinite(ret.weighted[1][2]) /\ ret.current_action[2] # 0

IsZeroSeq(seq) == \A t \in DOMAIN seq : \A j \in DOMAIN seq[t] : seq[t][j] = 0
IsFiniteSeq(seq) == \A t \in DOMAIN seq : \A j \in DOMAIN seq[t] : IsFinite(seq[t][j])

\* C6: the stored mean sequence is zero from construction on, changes only
\* when a forward call completes, is then the optimal sequence that call
\* returns, and is exactly what the next forward call perturbs.
C6_MeanLifecycle ==
    [][ /\ (mppi'.live /\ ~mppi.live) => IsZeroSeq(mppi'.previous_action_seq)
        /\ (mppi.live /\ calls' = calls + 1 /\ ret'.raised = "none") =>
              /\ mppi'.previous_action_seq = ret'.optimal_action_seq
              /\ ret'.mean_action_seq = mppi.previous_action_seq
              /\ mppi'.perturbed_action_seqs =
                    perturb(mppi.cfg, mppi.previous_action_seq,
                            rsample(mppi.cfg, rng))
        /\ (mppi.live /\ ~(calls' = calls + 1 /\ ret'.raised = "none")) =>
              mppi'.previous_action_seq = mppi.previous_action_seq
      ]_vars

\* a second forward call completed after one that stored a nonzero sequence
C6_SecondCallPerturbsStored ==
    /\ ReturnedForward
    /\ calls = 2
    /\ ~IsZeroSeq(ret.pre) /\ IsFiniteSeq(ret.pre)
    /\ IsFiniteSeq(mppi.previous_action_seq)
    /\ mppi.previous_action_seq # ret.pre

\* C7: a forward call whose state contains NaN is rejected as an error and
\* leaves the stored mean sequence as it was before the call.
C7_NaNStateRejected ==
    (CalledForward /\ \E d \in DOMAIN ret.state : IsNaN(ret.state[d])) =>
        /\ ret.raised # "none"
        /\ mppi.previous_action_seq = ret.pre

\* C8: a forward call with a state of the wrong shape fails and leaves the
\* stored mean sequence unchanged; a construction with u_min, u_max or
\* sigmas of the wrong shape fails and produces no controller.
C8_ShapeMismatchFails ==
    /\ (CalledForward /\ Len(ret.state) # mppi.cfg.dim_state) =>
          /\ ret.raised = "AssertionError"
          /\ mppi.previous_action_seq = ret.pre
    /\ (ret.op = "init" /\ (\/ Len(ret.cfg.u_min) # ret.cfg.dim_control
                            \/ Len(ret.cfg.u_max) # ret.cfg.dim_control
                            \/ Len(ret.cfg.sigmas) # ret.cfg.dim_control)) =>
          /\ ret.raised = "Exception"
          /\ ~mppi.live

\* a forward call with a state of the wrong shape was made on a controller
\* whose stored mean sequence was not zero
C8_WrongShapeAfterUpdate ==
    /\ CalledForward
    /\ Len(ret.state) # mppi.cfg.dim_state
    /\ ~IsZeroSeq(ret.pre) /\ IsFiniteSeq(ret.pre)

\* the constructor arguments the specification rules out
MalformedConfig(cfg) ==
    \/ \E j \in DOMAIN cfg.u_min \cap DOMAIN cfg.u_max : cfg.u_min[j] >= cfg.u_max[j]
    \/ \E j \in DOMAIN cfg.sigmas : cfg.sigmas[j] <= 0
    \/ cfg.lambda_ <= 0
    \/ cfg.horizon < 1
    \/ cfg.num_samples < 1
    \/ cfg.num_samples_expect < 1

\* C9: construction fails, and produces no controller, whenever some
\* u_min >= u_max, some sigma <= 0, lambda_ <= 0, horizon < 1,
\* num_samples < 1 or num_samples_expect < 1.
C9_MalformedConfigRejected ==
    (ret.op = "init" /\ MalformedConfig(ret.cfg)) =>
        /\ ret.raised = "Exception"
        /\ ~mppi.live

\* C10: every state at steps 1..horizon of every rollout has
\* width_ticks >= 120.
C10_RolloutWidthFloor ==
    mppi.live =>
        \A i \in DOMAIN mppi.state_seq_batch_exp :
        \A e \in DOMAIN mppi.state_seq_batch_exp[i] :
        \A t \in DOMAIN mppi.state_seq_batch_exp[i][e] \ {1} :
            Ge(mppi.state_seq_batch_exp[i][e][t][4], width_floor)

\* the last operation was a dynamics step on a finite state and action
\* with a positive price factor
SteppedDynamics ==
    /\ ret.op = "uniswap_dynamics"
    /\ ValidState(ret.state)
    /\ \A j \in DOMAIN ret.action : IsFinite(ret.action[j])
    /\ Gt(ret.params, 0)

\* C11: the next pool tick returned by the dynamics step lies within the new
\* range, next_t_center - next_w_ticks/2 <= next_t_pool <= next_t_center +
\* next_w_ticks/2, for every state, action and positive price factor, also
\* when the previous pool tick was outside the previous range.
C11_PoolTickWithinNewRange ==
    SteppedDynamics =>
        /\ 2 * ret.next[3] - ret.next[4] <= 2 * ret.next[2]
        /\ 2 * ret.next[2] <= 2 * ret.next[3] + ret.next[4]

\* a step from a pool tick below the previous range ended on the lower edge
\* of the new range
C11_OutsideBroughtToEdge ==
    /\ SteppedDynamics
    /\ 2 * ret.state[2] < 2 * ret.state[3] - ret.state[4]
    /\ ret.next[2] # ret.state[2]
    /\ 2 * ret.next[2] = 2 * ret.next[3] - ret.next[4]

\* C12: two freshly constructed controllers given the same seed, the same
\* constructor parameters and the same state return the same immediate
\* action and the same optimal sequence from their first forward call,
\* however the two constructions and the two calls are ordered in the
\* process.
C12_Reproducible ==
    \A a, b \in Names :
        (/\ fleet[a].done # << >> /\ fleet[b].done # << >>
         /\ fleet[a].seed = fleet[b].seed
         /\ fleet[a].done[1].state = fleet[b].done[1].state) =>
            /\ fleet[a].done[1].current_action = fleet[b].done[1].current_action
            /\ fleet[a].done[1].optimal_action_seq =
                  fleet[b].done[1].optimal_action_seq

\* C13: whatever constructions of and forward calls on the other controller
\* are interleaved with its own calls, every output of a controller and its
\* stored mean sequence are those of the same controller run alone.
C13_Independent ==
    \A b \in Names :
        fleet[b].obj.live =>
            \E alone \in {run_alone(fleet[b].seed,
                                     [k \in DOMAIN fleet[b].done |->
                                         fleet[b].done[k].state],
                                     Len(fleet[b].done))} :
                /\ \A k \in DOMAIN fleet[b].done :
                      /\ fleet[b].done[k].current_action =
                            alone.outs[k].current_action
                      /\ fleet[b].done[k].optimal_action_seq =
                            alone.outs[k].optimal_action_seq
                /\ (fleet[b].inflight = << >>) =>
                      fleet[b].obj.previous_action_seq =
                          alone.self.previous_action_seq

\* C14: the forward calls on one controller are serialized by its loop: at
\* most one call is in flight, the stored mean sequence is not written
\* between a call's read of it and the call's own write, and no update is
\* lost, every call after the first having read the sequence the call
\* before it stored.
C14_Serialized ==
    \A c \in Names :
        /\ Len(fleet[c].inflight) <= 1
        /\ \A k \in DOMAIN fleet[c].inflight :
              fleet[c].inflight[k].mean_action_seq =
                  fleet[c].obj.previous_action_seq
        /\ \A k \in DOMAIN fleet[c].done :
              /\ fleet[c].done[k].mean_action_seq = fleet[c].done[k].stored_before
              /\ k > 1 => fleet[c].done[k].mean_action_seq =
                              fleet[c].done[k - 1].optimal_action_seq

\* a controller's second call is in flight on the nonzero sequence its
\* first call stored, while the other controller has been used in between
C14_SecondCallInFlight ==
    \E c \in Names, d \in Names :
        /\ c # d
        /\ fleet[d].obj.live
        /\ Len(fleet[c].done) = 1
        /\ Len(fleet[c].inflight) = 1
        /\ ~IsZeroSeq(fleet[c].done[1].optimal_action_seq)
        /\ IsFiniteSeq(fleet[c].done[1].optimal_action_seq)

\* the current range as MPPIBot.run computes it from the state vector
current_range(state) ==
    bot_range(state[3], PyMax(2 * tick_spacing, state[4]))

\* C15: a control cycle hands a target range to the executor only if it
\* differs from the current range: when the computed (new_lower, new_upper)
\* equals the current (lower, upper) the executor is not invoked.
C15_EmittedOnlyIfDifferent ==
    (ret.op = "run" /\ ret.state # NoState /\ emitted # NoRange) =>
        <<emitted[1], emitted[2]>> # current_range(ret.state)

\* C16: when the state source reports no active position, assembling the
\* state vector from a row of positive prices does not fail: the state has
\* the default width, which is positive, and a range centre within one tick
\* spacing of the pool tick.
C16_FallbackWithoutPosition ==
    (/\ ret.op = "run"
     /\ ret.pos = NoPos
     /\ ret.row # NoRow
     /\ ~PriceRaises(ret.row[1]) /\ ~PriceRaises(ret.row[2])) =>
        /\ ret.state # NoState
        /\ ret.state[4] > 0
        /\ ret.state[3] <= ret.state[2]
        /\ ret.state[2] - ret.state[3] < tick_spacing

\* a cycle without an active position ran forward on the default range
C16_DefaultRangeUsed ==
    /\ ret.op = "run"
    /\ ret.pos = NoPos
    /\ ret.state # NoState
    /\ ret.state[4] = DefaultWidth
    /\ ret.raised = "none"

\* C17: a freshly constructed controller with the constant-parameter
\* generator (propose=False), called on the state [1000, 1000, 1000, 4000],
\* returns the immediate action [0, 0].
C17_EquilibriumZeroAction ==
    (/\ ret.op = "forward"
     /\ calls = 1
     /\ mppi.cfg = [MPPI_CONFIG EXCEPT !.PROPOSE = FALSE]
     /\ ret.state = <<1000, 1000, 1000, 4000>>) =>
        /\ ret.raised = "none"
        /\ ret.current_action = <<0, 0>>

\* the market tick is outside the range at every step of every rollout of
\* the last forward call
MarketOutsideOnEveryRollout ==
    \A i \in DOMAIN mppi.state_seq_batch_exp :
    \A e \in DOMAIN mppi.state_seq_batch_exp[i] :
    \A t \in DOMAIN mppi.state_seq_batch_exp[i][e] :
        LET x == mppi.state_seq_batch_exp[i][e][t]
        IN  \/ Lt(x[1], Sub(x[3], HalfF(x[4])))
            \/ Gt(x[1], Add(x[3], HalfF(x[4])))

\* C18: for a state with t_market = t_center + 500 whose market tick is
\* outside the range on every rollout, the immediate delta_center forward
\* returns is positive; for t_market = t_center - 500 it is negative.
C18_RecentersTowardsMarket ==
    (/\ ReturnedForward
     /\ ValidConfig(mppi.cfg)
     /\ ValidState(ret.state)
     /\ MarketOutsideOnEveryRollout) =>
        /\ ret.state[1] = ret.state[3] + 500 => Gt(ret.current_action[1], 0)
        /\ ret.state[1] = ret.state[3] - 500 => Lt(ret.current_action[1], 0)

\* the last operation was a dynamics step with zero action and unit factor
ZeroStep ==
    /\ ret.op = "uniswap_dynamics"
    /\ ret.action = <<0, 0>>
    /\ ret.params = 100

\* t_market, t_center and width_ticks unchanged; t_pool changed only if it
\* differed from t_market, and then no farther from t_market than before
ZeroStepFrame ==
    /\ ret.next[1] = ret.state[1]
    /\ ret.next[3] = ret.state[3]
    /\ ret.next[4] = ret.state[4]
    /\ ret.next[2] # ret.state[2] =>
          /\ ret.state[2] # ret.state[1]
          /\ Le(AbsF(Sub(ret.next[2], ret.state[1])),
                AbsF(Sub(ret.state[2], ret.state[1])))

\* C19 as stated: for every state, the dynamics step with zero action and
\* unit price factor leaves t_market, t_center and width_ticks unchanged and
\* changes t_pool only if it differs from t_market, the new t_pool then
\* being no farther from t_market than the old one.
C19_ZeroStepEveryState == ZeroStep => ZeroStepFrame

\* C19: the same for every state whose width_ticks is at least 120 and
\* whose t_pool lies within [t_center - width_ticks/2, t_center +
\* width_ticks/2].
C19_ZeroStepInRange ==
    (/\ ZeroStep
     /\ ret.state[4] >= width_floor
     /\ 2 * ret.state[3] - ret.state[4] <= 2 * ret.state[2]
     /\ 2 * ret.state[2] <= 2 * ret.state[3] + ret.state[4]) => ZeroStepFrame

\* a zero step moved an in-range pool tick towards the market tick
C19_PoolMovedTowardsMarket ==
    /\ ZeroStep
    /\ ret.state[4] >= width_floor
    /\ 2 * ret.state[3] - ret.state[4] <= 2 * ret.state[2]
    /\ 2 * ret.state[2] <= 2 * ret.state[3] + ret.state[4]
    /\ ret.next[2] # ret.state[2]
    /\ ret.next[2] # ret.state[1]

\* C20: the matrix the jump-diffusion generator returns has shape
\* (num_outer, horizon) and every element is a strictly positive price
\* factor within [0.7, 1.3].
C20_FactorsWithinClamp ==
    ret.op = "generate_jump_diffusion_parameter_seq" =>
        /\ DOMAIN ret.params = 1..ret.num_outer
        /\ \A e \in DOMAIN ret.params :
              /\ DOMAIN ret.params[e] = 1..ret.horizon
              /\ \A t \in DOMAIN ret.params[e] :
                    /\ ret.params[e][t] > 0
                    /\ 70 <= ret.params[e][t] /\ ret.params[e][t] <= 130

\* a jump was drawn and the matrix holds a factor on each end of the clamp
C20_BothEndsReached ==
    /\ ret.op = "generate_jump_diffusion_parameter_seq"
    /\ ret.jumped
    /\ \E e \in DOMAIN ret.params : \E t \in DOMAIN ret.params[e] :
          ret.params[e][t] = 70
    /\ \E e \in DOMAIN ret.params : \E t \in DOMAIN ret.params[e] :
          ret.params[e][t] = 130

\* C21: under the constant-parameter generator (propose=False) the market
\* tick of every rollout state equals the initial market tick at every
\* horizon step, the generator returning the price factor 1 in every entry.
C21_ConstantMarketTick ==
    (/\ ReturnedForward
     /\ ~mppi.cfg.PROPOSE
     /\ ValidConfig(mppi.cfg)
     /\ ValidState(ret.state)) =>
        \A i \in DOMAIN mppi.state_seq_batch_exp :
        \A e \in DOMAIN mppi.state_seq_batch_exp[i] :
        \A t \in DOMAIN mppi.state_seq_batch_exp[i][e] :
            mppi.state_seq_batch_exp[i][e][t][1] = ret.state[1]

\* C22: after a forward call, get_top_samples(k) with k <= num_samples
\* returns the state trajectories rolled out in that call for the k samples
\* with the highest weights, together with those weights, ordered by
\* descending weight; a call with k > num_samples is rejected.  (The last
\* forward call was made with a valid configuration on a finite state.)
C22_TopSamples ==
    (/\ ret.op = "get_top_samples"
     /\ ValidConfig(mppi.cfg)
     /\ mppi.state_seq_batch_exp # << >>
     /\ ValidState(mppi.state_seq_batch[1][1])) =>
        IF ret.k > mppi.cfg.num_samples
        THEN ret.raised = "AssertionError"
        ELSE /\ ret.raised = "none"
             /\ Len(ret.top_samples) = ret.k
             /\ Len(ret.top_weights) = ret.k
             /\ ret.top_indices \in TopIndices(mppi.weights, ret.k)
             /\ \A n \in 1..ret.k :
                   /\ ret.top_weights[n] = mppi.weights[ret.top_indices[n]]
                   /\ \E e \in DOMAIN mppi.state_seq_batch_exp[ret.top_indices[n]] :
                         ret.top_samples[n] =
                             mppi.state_seq_batch_exp[ret.top_indices[n]][e]

\* weights that are not a probability distribution: a NaN or negative
\* weight, or a sum that is not 1 (within one rounding unit per weight)
DegenerateWeights(weights) ==
    \/ \E i \in DOMAIN weights : ~Ge(weights[i], 0)
    \/ LET total == SumFn(weights, Len(weights))
       IN  ~(Le(total, WOne + Len(weights)) /\ Ge(total, WOne - Len(weights)))

\* C23: a forward call whose computed weights are degenerate reports an
\* error instead of returning an action.
C23_DegenerateWeightsReported ==
    (/\ CalledForward
     /\ ret.raised # "AssertionError"
     /\ DegenerateWeights(mppi.weights)) =>
        ret.raised # "none"

\* C24: the values forward returns do not alias the stored mean sequence: a
\* caller's write into the returned immediate action or optimal sequence
\* leaves the stored mean sequence, which the next forward call reads, as
\* the call stored it.
C24_ReturnedNotAliased ==
    ret.op = "write" => mppi.previous_action_seq = ret.stored

\* C25: the sequence stored as the new mean sequence and the optimal
\* sequence forward returns equal the weighted sum of the perturbed
\* sequences at every horizon step, step 0 included: the deadband zeroes
\* components of the returned immediate action only.
C25_StoredIsWeightedSum ==
    (/\ ReturnedForward
     /\ ValidConfig(mppi.cfg)
     /\ ValidState(ret.state)
     /\ IsFiniteSeq(ret.weighted)) =>
        /\ mppi.previous_action_seq = ret.weighted
        /\ ret.optimal_action_seq = ret.weighted

\* C26: the state vector a control cycle passes to forward is, for the
\* active position [tick_lower, tick_upper] and the prices read,
\* t_market = price_to_tick(external_price), t_pool =
\* price_to_tick(pool_price), t_center = (tick_lower + tick_upper)/2 and
\* width_ticks = tick_upper - tick_lower, where price_to_tick rounds
\* ln(price)/ln(1.0001) to the nearest integer.
C26_StateAssembledInTicks ==
    (/\ ret.op = "run"
     /\ ret.state # NoState
     /\ ret.pos # NoPos) =>
        ret.state = <<price_to_tick(ret.row[1]), price_to_tick(ret.row[2]),
                      (ret.pos[1] + ret.pos[2]) \div 2, ret.pos[2] - ret.pos[1]>>

\* |delta_center| + |delta_width| of the action of the last stage_cost call
ActionSum == AbsF(ret.action[1]) + AbsF(ret.action[2])
\* the rebalancing-cost term of the last stage_cost call, in cost units of
\* 1e-5: its cost less the cost of the same state with the zero action
RebalanceTerm == ret.cost - ret.idle

\* C27 as stated: the stage cost charges the rebalancing-cost proxy of
\* exactly 0.002 when the summed absolute action exceeds 120 ticks, and 0
\* for that term when the sum is at most 120 ticks.
C27_ChargeAbove120 ==
    ret.op = "stage_cost" =>
        RebalanceTerm = IF ActionSum > 120 THEN 200 ELSE 0

\* C27: the stage cost charges the rebalancing-cost proxy of exactly 0.005
\* when the summed absolute action exceeds 60 ticks, and 0 for that term
\* when the sum is at most 60 ticks.
C27_ChargeAbove60 ==
    ret.op = "stage_cost" =>
        RebalanceTerm = IF ActionSum > 60 THEN 500 ELSE 0

\* a stage cost charged 0.005 for an action whose summed magnitude is above
\* 60 and not above 120 ticks, and another charged nothing at exactly 60
C27_ChargedBetweenThresholds ==
    /\ ret.op = "stage_cost"
    /\ ActionSum > 60 /\ ActionSum <= 120
    /\ RebalanceTerm = 500
    /\ stage_cost(ret.state, <<60, 0>>) = ret.idle

\* C28: in every cycle of MPPIBot.run the executor is called only after
\* that cycle's forward call has returned, and exactly when the returned
\* immediate action has a nonzero component; a cycle whose immediate action
\* is [0, 0], and a cycle without state, hand nothing to the executor.  (A
\* cycle hands over at most one range: emitted holds the range of the one
\* execute_rebalance call of the iteration.)
C28_RebalanceIffNonzeroAction ==
    ret.op = "run" =>
        /\ emitted # NoRange => ReturnedForward
        /\ ReturnedForward =>
              (emitted # NoRange <=> ret.current_action # <<0, 0>>)
        /\ ret.state = NoState => emitted = NoRange

\* a cycle called the executor for an action that changes the width only,
\* after a cycle whose action was [0, 0] had called nothing
C28_WidthOnlyRebalance ==
    /\ ret.op = "run"
    /\ ReturnedForward
    /\ ret.current_action[1] = 0
    /\ ret.current_action[2] # 0
    /\ emitted # NoRange

\* C29: an iteration of MPPIBot.run in which no state is available calls
\* neither forward nor the executor and leaves the controller, its stored
\* mean sequence included, as it was; and an exception raised in an
\* iteration is caught, the loop going on to a next iteration.
C29_NoStateAndExceptions ==
    [][ ret'.op = "run" =>
          /\ ret'.state = NoState =>
                /\ calls' = calls
                /\ rng' = rng
                /\ mppi' = mppi
                /\ position' = position
                /\ emitted' = NoRange
          /\ ret'.site # "none" =>
                /\ ret'.caught # "none"
                /\ owner' = "bot"
      ]_vars

\* an iteration without state ran after an iteration in which an exception
\* was raised, on a controller whose stored mean sequence is not zero
C29_IdleCycleAfterException ==
    /\ ret.op = "run"
    /\ ret.state = NoState
    /\ ret.after_raise
    /\ owner = "bot"
    /\ ~IsZeroSeq(mppi.previous_action_seq)

\* the number of entries of log equal to e
Count(log, e) == Cardinality({n \in DOMAIN log : log[n] = e})

\* C30: within one execute_rebalance call the mint transaction is sent only
\* after the burn transaction of the account's active position, when there
\* is one, has been sent and its receipt received; a mint is never sent
\* before or without that burn, and the call sends at most one burn and at
\* most one mint.
C30_MintOnlyAfterBurn ==
    ret.op = "execute_rebalance" =>
        /\ Count(ret.log, "burn_sent") <= 1
        /\ Count(ret.log, "mint_sent") <= 1
        /\ \A n \in DOMAIN ret.log :
              (ret.log[n] = "mint_sent" /\ ret.had # NoPos) =>
                  \E a, b \in 1..(n - 1) :
                      /\ a < b
                      /\ ret.log[a] = "burn_sent"
                      /\ ret.log[b] = "burn_receipt"

=============================================================================
